---- MODULE Spec2Model ----
(***************************************************************************)
(* Datareader of shed/datareader.py: the streaming csv reader.             *)
(*                                                                         *)
(* A reader is constructed over a list of csv files and pulled through     *)
(* load(): per file the line-wise reader enumerates the lines, skips the   *)
(* indices of `skip`, adopts line 0 as header mapping when the sniffer     *)
(* reports a header, stops at max_n, and hands every other line to         *)
(* _extract_row; rows with a truthy label go through preprocess and the    *)
(* accepted ones are yielded.                                              *)
(*                                                                         *)
(* Encoding of Python values: csv cells, column names and labels are       *)
(* strings; lists are sequences; None is a reserved value of the type of   *)
(* the field it stands in (NoneS, NoneL, NoneF); a None or 0 max_n (both   *)
(* falsy in the two places the code reads it) is 0.  Line indices are      *)
(* 0-based as in the code (enumerate), sequences are 1-based, so column c  *)
(* of the code is position c + 1 of a line.  The entries of lw and out     *)
(* carry the file and line they come from beside the row itself.           *)
(***************************************************************************)
EXTENDS Integers, Sequences, FiniteSets, TLC

VARIABLES
    file_list,  \* self.file_list: the files, each [hdr |-> kind of file]
    proc,       \* self.proc
    max_n,      \* self.max_n (already offset by one; 0 for None)
    skip,       \* self.skip: set of line indices
    shuffle,    \* self.shuffle
    rnd_seed,   \* self.rnd_seed (handed to rnd.seed, read by nothing else)
    label,      \* self.label (reassigned when a header is adopted)
    headers,    \* self.headers: the active header mapping
    meta,       \* self.meta (mutated by _extract_row)
    args,       \* the label and meta arguments as the constructor received them
    pc,         \* "idle" (constructed), "run" (load being pulled), "done", "error"
    exc,        \* the exception that ended load, "" when none
    k,          \* position in file_list of the file being read (1-based)
    i,          \* enumerate index of the next line of that file (0-based)
    lw,         \* rows yielded so far by _load_data_linewise, with their origin
    out,        \* rows yielded so far by load, with their origin
    call        \* argument and return value of a direct call of preprocess

vars == <<file_list, proc, max_n, skip, shuffle, rnd_seed, label, headers, meta,
          args, pc, exc, k, i, lw, out, call>>

\* ------------------------------------------------------------------ bounds
MaxFiles == 2
MaxLines == 4
MaxN == 1

\* --------------------------------------------------------- Python's None
\* None in a field that holds a string (a label, a text, self.proc)
NoneS == "None"
\* None in the place of a list of strings or of a row
NoneL == <<"None">>
\* None in the place of a list of annotation triples
NoneF == << <<"None">> >>

\* ------------------------------------------------------------- sequences
Has(s, x) == \E j \in 1..Len(s) : s[j] = x

\* list.index: position of the first occurrence (1-based)
Index(s, x) == CHOOSE j \in 1..Len(s) : s[j] = x /\ \A m \in 1..(j - 1) : s[m] # x

\* list.remove: the list without the first occurrence of x
Remove(s, x) ==
    LET p == Index(s, x)
    IN [j \in 1..(Len(s) - 1) |-> IF j < p THEN s[j] ELSE s[j + 1]]

\* ----------------------------------------------------------------- files
DefaultHeaders ==
    <<"user_id", "age", "gender", "loc_country", "loc_region", "loc_city",
      "education", "pers_big5", "pers_mbti", "text", "frog">>

\* Header rows of the headed files: a full one, one with the label column
\* first and no annotation column, one without the age and text columns.
HdrA == <<"user_id", "age", "text", "frogs", "region">>
HdrB == <<"age", "text", "region">>
HdrC == <<"user_id", "gender", "frog", "region">>

HeaderKinds == {"none", "A", "B", "C"}

Files == [hdr : HeaderKinds]

PathNames == <<"data1.csv", "data2.csv", "data3.csv", "data4.csv">>

\* the path of the file at position n of file_list
Path(n) == PathNames[n]

\* the column names the file's lines are laid out by
Schema(f) ==
    CASE f.hdr = "A" -> HdrA
      [] f.hdr = "B" -> HdrB
      [] f.hdr = "C" -> HdrC
      [] OTHER -> DefaultHeaders

\* number of physical lines of a file
NLines(f) == MaxLines

\* the csv cell of a column at physical line n: lines 0 and 1 (mod 4) are
\* complete, line 2 has 3 annotation tokens, line 3 has an empty age
CellOf(col, n) ==
    CASE col = "age" -> IF n % 4 = 3 THEN "" ELSE "23"
      [] col = "gender" -> "F"
      [] col = "text" -> "Hi"
      [] col \in {"frog", "frogs"} -> IF n % 4 = 2 THEN "t3" ELSE "t4"
      [] col \in {"region", "loc_region"} -> "North"
      [] OTHER -> "x"

\* csv.reader: line n of file f
Line(f, n) ==
    IF f.hdr # "none" /\ n = 0
    THEN Schema(f)
    ELSE [c \in 1..Len(Schema(f)) |-> CellOf(Schema(f)[c], n)]

\* _check_header: the sniffer's verdict on the file
_check_header(f) == f.hdr # "none"

\* -------------------------------------------------------- collaborators
\* number of annotation tokens encoded in a cell
TokCount(cell) ==
    CASE cell = "" -> 0
      [] cell = "t3" -> 3
      [] cell = "t4" -> 4
      [] OTHER -> 1

\* backbone.decode: one [token, lemma, tag] triple per token
decode(cell) == [j \in 1..TokCount(cell) |-> <<cell, cell, "TAG">>]

\* Preprocessor.basic: lowercasing
basic(text) ==
    CASE text = "Hi" -> "hi"
      [] text = "F" -> "f"
      [] text = "North" -> "north"
      [] OTHER -> text

\* Preprocessor.label_convert: ages are put into classes
label_convert(l) == IF l = "23" THEN "20-29" ELSE l

\* ------------------------------------------------------------ preprocess
\* lines 185-190: the conversions of the row
Convert(row) ==
    LET r1 == IF proc = "label" \/ proc = "both"
              THEN [row EXCEPT ![1] = label_convert(row[1])]
              ELSE row
    IN IF proc = "text" \/ proc = "both"
       THEN [r1 EXCEPT ![2] = basic(r1[1])]
       ELSE r1

C7_Valid_off_by_one(row) ==
    /\ row[1] # NoneS /\ row[2] # NoneS /\ row[3] # NoneF /\ row[4] # NoneL
    /\ row[1] # ""
    /\ Len(row[3]) >= 3

\* line 193: None not in row and len(row[0]) > 0 and len(row[2]) > 3
Valid(row) ==
    /\ row[1] # NoneS /\ row[2] # NoneS /\ row[3] # NoneF /\ row[4] # NoneL
    /\ row[1] # ""
    /\ Len(row[3]) > 3

\* preprocess: the converted row, or None
preprocess(row) == IF Valid(Convert(row)) THEN Convert(row) ELSE NoneL

\* ---------------------------------------------------------- _extract_row
\* lines 224-231: the annotation lookup.  A ValueError (no frog and no frogs
\* column) is caught and leaves the empty list; an IndexError (the column
\* lies beyond the end of the line) is not.
C8_frog_data_uncaught(line) ==
    LET head == IF Has(headers, "frog") THEN Index(headers, "frog")
                ELSE Index(headers, "frogs")
    IN IF ~(Has(headers, "frog") \/ Has(headers, "frogs"))
       THEN [exc |-> "ValueError", val |-> <<>>]
       ELSE IF head > Len(line) THEN [exc |-> "IndexError", val |-> <<>>]
       ELSE [exc |-> "", val |-> decode(line[head])]

frog_data(line) ==
    LET head == IF Has(headers, "frog") THEN Index(headers, "frog")
                ELSE Index(headers, "frogs")
    IN IF ~(Has(headers, "frog") \/ Has(headers, "frogs"))
       THEN [exc |-> "", val |-> <<>>]
       ELSE IF head > Len(line) THEN [exc |-> "IndexError", val |-> <<>>]
       ELSE [exc |-> "", val |-> decode(line[head])]

\* The outcome of _extract_row on a line: the exception raised ("" when
\* none), the row returned, and self.meta as the call leaves it.
_extract_row(line, filename) ==
    LET fail(e, m) == [exc |-> e, row |-> NoneL, meta |-> m]
        m1 == IF Has(meta, "file") THEN Remove(meta, "file") ELSE meta
        pre == IF Has(meta, "file") THEN <<filename>> ELSE <<>>
    IN IF ~Has(headers, label) THEN fail("ValueError", meta)
       ELSE IF Index(headers, label) > Len(line) THEN fail("IndexError", meta)
       ELSE IF ~Has(headers, "text") THEN fail("ValueError", meta)
       ELSE IF Index(headers, "text") > Len(line) THEN fail("IndexError", meta)
       ELSE IF \E j \in 1..Len(m1) : ~Has(headers, m1[j]) THEN fail("ValueError", m1)
       ELSE IF \E j \in 1..Len(m1) : Index(headers, m1[j]) > Len(line)
            THEN fail("IndexError", m1)
       ELSE IF frog_data(line).exc # "" THEN fail(frog_data(line).exc, m1)
       ELSE [exc |-> "",
             row |-> << line[Index(headers, label)],
                        line[Index(headers, "text")],
                        frog_data(line).val,
                        pre \o [j \in 1..Len(m1) |-> line[Index(headers, m1[j])]] >>,
             meta |-> m1]

\* ------------------------------------------------------------------ Init
Procs == {NoneS, "text", "label", "both"}
Labels == {NoneS, "age"}
Skips == {{}, {1}, {0, 1}}
\* the default of the rnd_seed parameter
DefaultSeed == 666
Metas == {<<>>, <<"file">>, <<"file", "region">>}
FileLists == UNION {[1..n -> Files] : n \in 0..MaxFiles}

NoCall == [none |-> TRUE]

\* __init__
Init ==
    /\ file_list \in FileLists
    /\ proc \in Procs
    /\ \E n \in 0..MaxN : max_n = IF n # 0 THEN n + 1 ELSE 0
    /\ skip \in Skips
    /\ shuffle \in BOOLEAN
    /\ rnd_seed = DefaultSeed
    /\ label \in Labels
    /\ headers = DefaultHeaders
    /\ meta \in Metas
    /\ args = [label |-> label, meta |-> meta]
    /\ pc = "idle"
    /\ exc = ""
    /\ k = 1
    /\ i = 0
    /\ lw = <<>>
    /\ out = <<>>
    /\ call = NoCall

\* --------------------------------------------------------------- actions
config == <<file_list, proc, max_n, skip, shuffle, rnd_seed, args>>

\* the values a caller may put in the fields of a row it hands to preprocess
CallLabels == <<NoneS, "", "23">>
CallTexts == <<NoneS, "Hi">>
CallFrogs == <<NoneF, decode("t3"), decode("t4")>>
CallMetas == <<NoneL, <<>>>>

\* reader.preprocess(row), called by the user of the reader; one such call
\* is followed, made before load() is pulled
PreprocessCall ==
    /\ pc = "idle" /\ call = NoCall
    /\ \E a \in 1..Len(CallLabels), b \in 1..Len(CallTexts),
          c \in 1..Len(CallFrogs), d \in 1..Len(CallMetas) :
          LET row == <<CallLabels[a], CallTexts[b], CallFrogs[c], CallMetas[d]>>
          IN /\ row[1] = NoneS => proc = NoneS
             /\ call' = [arg |-> row, ret |-> preprocess(row)]
    /\ UNCHANGED <<config, label, headers, meta, pc, exc, k, i, lw, out>>

\* the first pull of load()
Start ==
    /\ pc = "idle"
    /\ pc' = IF file_list = <<>> THEN "done" ELSE "run"
    /\ call' = NoCall
    /\ UNCHANGED <<config, label, headers, meta, exc, k, i, lw, out>>

cur == file_list[k]

Reading == pc = "run" /\ i < NLines(cur)

C4_is_header_any_line == _check_header(cur)

\* line 264: self._check_header(filename) and not i
is_header == _check_header(cur) /\ i = 0

C5_skipped_after_header == i \in skip /\ ~is_header

\* line 263: i in self.skip
skipped == i \in skip

\* line 268: self.max_n and i >= self.max_n
at_max == max_n # 0 /\ i >= max_n

\* the for loop of load moves to the next file, or ends
NextFile ==
    /\ k' = k + 1
    /\ i' = 0
    /\ pc' = IF k = Len(file_list) THEN "done" ELSE "run"

C9_Yield_shuffled(stream, item) ==
    IF shuffle THEN <<item>> \o stream ELSE Append(stream, item)

\* line 164: yield p_row
Yield(stream, item) == Append(stream, item)

SkipLine ==
    /\ Reading /\ skipped
    /\ i' = i + 1
    /\ UNCHANGED <<config, label, headers, meta, pc, exc, k, lw, out, call>>

C10_AdoptHeader_relabel ==
    /\ Reading /\ ~skipped /\ is_header
    /\ headers' = Line(cur, i)
    /\ label' = headers'[2]
    /\ i' = i + 1
    /\ UNCHANGED <<config, meta, pc, exc, k, lw, out, call>>

\* lines 265-267
AdoptHeader ==
    /\ Reading /\ ~skipped /\ is_header
    /\ headers' = Line(cur, i)
    /\ label' = IF label \in {NoneS, ""} THEN headers'[2] ELSE label
    /\ i' = i + 1
    /\ UNCHANGED <<config, meta, pc, exc, k, lw, out, call>>

\* line 269: break
MaxBreak ==
    /\ Reading /\ ~skipped /\ ~is_header /\ at_max
    /\ NextFile
    /\ UNCHANGED <<config, label, headers, meta, exc, lw, out, call>>

\* lines 271-273 and 162-164
ExtractLine ==
    /\ Reading /\ ~skipped /\ ~is_header /\ ~at_max
    /\ LET r == _extract_row(Line(cur, i), Path(k))
       IN /\ meta' = r.meta
          /\ IF r.exc # ""
             THEN /\ pc' = "error"
                  /\ exc' = r.exc
                  /\ UNCHANGED <<i, lw, out>>
             ELSE /\ i' = i + 1
                  /\ UNCHANGED <<pc, exc>>
                  /\ IF r.row[1] # ""
                     THEN /\ lw' = Append(lw, [file |-> k, line |-> i, row |-> r.row])
                          /\ out' = IF preprocess(r.row) # NoneL
                                    THEN Yield(out, [file |-> k, line |-> i,
                                                     row |-> preprocess(r.row)])
                                    ELSE out
                     ELSE UNCHANGED <<lw, out>>
    /\ UNCHANGED <<config, label, headers, k, call>>

\* the csv reader is exhausted
EndOfFile ==
    /\ pc = "run" /\ i = NLines(cur)
    /\ NextFile
    /\ UNCHANGED <<config, label, headers, meta, exc, lw, out, call>>

Next ==
    \/ PreprocessCall
    \/ Start
    \/ SkipLine
    \/ AdoptHeader
    \/ MaxBreak
    \/ ExtractLine
    \/ EndOfFile

Spec == Init /\ [][Next]_vars

\* ---------------------------------------------------------------- claims
\* the raw csv line an entry of lw or out was extracted from
RawLine(e) == Line(file_list[e.file], e.line)

\* the entries of a stream that come from the file at position n
FromFile(stream, n) == {m \in 1..Len(stream) : stream[m].file = n}

\* C1: with 'file' in the meta argument every row load yields has the path
\* of its file as first metadata element, and with meta = ['file', 'region']
\* its metadata is exactly [filepath, region value].
C1_FilePathInEveryRow ==
    Has(args.meta, "file") =>
        \A n \in 1..Len(out) :
            /\ out[n].row[4] # <<>>
            /\ out[n].row[4][1] = Path(out[n].file)
            /\ (args.meta = <<"file", "region">>
                 /\ Has(Schema(file_list[out[n].file]), "region"))
                => out[n].row[4] =
                     <<Path(out[n].file),
                       RawLine(out[n])[Index(Schema(file_list[out[n].file]), "region")]>>

\* C2: from a file without a detected header, a reader constructed with
\* max_n = N > 0 gets at most N rows out of the line-wise reader.
C2_AtMostMaxN ==
    \A n \in 1..Len(file_list) :
        (~_check_header(file_list[n]) /\ max_n # 0)
            => Cardinality(FromFile(lw, n)) <= max_n - 1

\* C3: with label = None the label of every extracted row is the value of
\* column 1 of its line, and extraction does not fail on the label lookup,
\* for headed and for headerless files.
C3_LabelIsSecondColumn ==
    args.label = NoneS =>
        /\ \A m \in 1..Len(lw) : lw[m].row[1] = RawLine(lw[m])[2]
        /\ ~(pc = "error" /\ ~Has(headers, label))

\* the state in which the file at position k - 1 has just been loaded
JustLoaded == pc \in {"run", "done"} /\ i = 0 /\ k > 1

\* C4, as stated: after a file with a detected header has been loaded the
\* header mapping is that file's first row, and that row is never yielded.
C4_Original ==
    /\ (JustLoaded /\ _check_header(file_list[k - 1]))
           => headers = Line(file_list[k - 1], 0)
    /\ \A n \in 1..Len(out) :
           _check_header(file_list[out[n].file]) => out[n].line # 0

\* C4, amended: after a file with a detected header whose line 0 is not in
\* the skip set has been loaded, the header mapping is that file's first
\* row; the first row of a file with a detected header is never yielded.
C4_HeaderAdopted ==
    /\ (JustLoaded /\ _check_header(file_list[k - 1]) /\ 0 \notin skip)
           => headers = Line(file_list[k - 1], 0)
    /\ \A n \in 1..Len(out) :
           _check_header(file_list[out[n].file]) => out[n].line # 0

C4_Witness ==
    /\ pc = "done" /\ k = 3 /\ 0 \notin skip
    /\ _check_header(file_list[2])
    /\ headers = Line(file_list[2], 0)
    /\ headers # Line(file_list[1], 0)
    /\ FromFile(out, 2) # {}

\* C5: a line whose index is in the skip set is never yielded, and line 0,
\* when skipped, is neither adopted as header mapping nor used to default
\* the label: both stay as the constructor set them.
C5_SkippedUntouched ==
    /\ \A m \in 1..Len(lw) : lw[m].line \notin skip
    /\ \A n \in 1..Len(out) : out[n].line \notin skip
    /\ 0 \in skip => (headers = DefaultHeaders /\ label = args.label)

C5_Witness ==
    /\ skip = {0, 1} /\ args.label = NoneS /\ label = NoneS
    /\ headers = DefaultHeaders
    /\ pc = "run" /\ k = 1 /\ i = 2
    /\ _check_header(cur)

\* C6: preprocess returns the row with its text replaced by basic(text) in
\* the modes text and both, its label replaced by label_convert(label) in
\* the modes label and both, the label untouched in mode text and the text
\* untouched in mode label (for a row whose text is not None).
C6_ConvertsOwnField ==
    (call # NoCall /\ call.ret # NoneL /\ call.arg[2] # NoneS) =>
        /\ proc \in {"text", "both"} => call.ret[2] = basic(call.arg[2])
        /\ proc \in {"label", "both"} => call.ret[1] = label_convert(call.arg[1])
        /\ proc = "text" => call.ret[1] = call.arg[1]
        /\ proc = "label" => call.ret[2] = call.arg[2]

\* the validity condition as the claim words it
C7_Accepts(r) ==
    /\ \A f \in {1, 2} : r[f] # NoneS
    /\ r[3] # NoneF
    /\ r[4] # NoneL
    /\ r[1] # ""
    /\ Len(r[3]) >= 4

\* one entry of a stream comes from the same line as the other
SameLine(a, b) == a.file = b.file /\ a.line = b.line

Extracting == Reading /\ ~skipped /\ ~is_header /\ ~at_max

\* every column _extract_row looks up other than the annotation column is
\* in the header mapping and within the line
OnlyFrogMissing ==
    LET m1 == IF Has(meta, "file") THEN Remove(meta, "file") ELSE meta
        cols == {label, "text"} \cup {m1[j] : j \in 1..Len(m1)}
    IN /\ \A c \in cols : Has(headers, c) /\ Index(headers, c) <= Len(Line(cur, i))
       /\ ~Has(headers, "frog") /\ ~Has(headers, "frogs")

Adopting(n) == {j \in 1..n : _check_header(file_list[j]) /\ 0 \notin skip}

Last(S) == CHOOSE j \in S : \A m \in S : m <= j
First(S) == CHOOSE j \in S : \A m \in S : j <= m

\* the mapping in force once the files up to position n have been opened:
\* the header of the last adopting file, the default when there is none
ActiveHeaders(n) ==
    IF Adopting(n) = {} THEN DefaultHeaders ELSE Line(file_list[Last(Adopting(n))], 0)

\* the label in force then: the configured one, else the second name of
\* the first header adopted
ActiveLabel(n) ==
    IF args.label # NoneS \/ Adopting(n) = {} THEN args.label
    ELSE Line(file_list[First(Adopting(n))], 0)[2]

\* the number of files whose line 0 has been passed
Opened == IF pc \in {"idle", "done"} \/ (pc = "run" /\ i = 0) THEN k - 1 ELSE k

\* C10: the header mapping and the label carry over from file to file: the
\* mapping is the header of the last file that had one adopted (a file
\* without detected header, or with line 0 skipped, leaves it), every row
\* is extracted with that mapping, and the label is defaulted once, from
\* the first header adopted.
C10_CarryOver ==
    /\ headers = ActiveHeaders(Opened)
    /\ label = ActiveLabel(Opened)
    /\ \A m \in 1..Len(lw) :
           /\ lw[m].row[2] = RawLine(lw[m])[Index(ActiveHeaders(lw[m].file), "text")]
           /\ lw[m].row[1] =
                RawLine(lw[m])[Index(ActiveHeaders(lw[m].file), ActiveLabel(lw[m].file))]

C10_Witness ==
    /\ args.label = NoneS /\ label = "age"
    /\ Len(file_list) = 2
    /\ _check_header(file_list[1]) /\ ~_check_header(file_list[2])
    /\ headers = Line(file_list[1], 0)
    /\ FromFile(lw, 2) # {}

====
